---- MODULE Spec2Model ----
(***************************************************************************)
(* A model of ercot_lmp_app.py: the normalization of ERCOT report rows     *)
(* into a (datetime, price) series, the hourly resampling, the statistics  *)
(* filter, and the Streamlit session around the "Fetch Data" button.       *)
(*                                                                         *)
(* Values.  A string is a sequence of one-character strings.  A DataFrame  *)
(* cell is a tagged tuple: <<"str", s>>, <<"int", n>>, <<"null">> for the  *)
(* JSON values of a response, <<"ts", t>> / <<"NaT">> for a pandas         *)
(* datetime (t in minutes since 2024-01-01T00:00) and <<"num", n, d>> /    *)
(* <<"nan">> for a float (the fraction n/d in lowest terms, d > 0).        *)
(* A DataFrame is [cols |-> sequence of column names, rows |-> sequence of *)
(* rows], a row being a function from the column names to cells.           *)
(***************************************************************************)
EXTENDS Integers, Sequences, FiniteSets, TLC

VARIABLES
    \* the pure pipeline, driven on one input row set
    raw,            \* the DataFrame handed to process_and_normalize_data
    norm,           \* what process_and_normalize_data returned for raw
    renorm,         \* what it returned for its own output
    relabelled,     \* ... for its output with 'datetime' presented as 'SCEDTimestamp'
    hourly,         \* what resample_to_hourly_average returned for norm's frame
    analysis,       \* what display_statistical_analysis rendered
    pc,             \* which of the above have been computed
    \* the hour-ending law: the same (date, hour) in both encodings
    hcase, rawAlt, normAlt,
    \* st.session_state
    ercot_access_token, data, price_column, report_type, location_input,
    show_analysis,
    \* the st.cache_data store of fetch_api_data
    memo,
    \* the observable history of the session
    last,           \* what the latest Fetch Data run did
    seen,           \* argument tuple -> result of the first completed fetch with it
    requests,       \* GET requests issued to the report API
    exchanges       \* POST requests issued to the token endpoint

pipeVars == <<raw, norm, renorm, relabelled, hourly, analysis, pc>>
hourVars == <<hcase, rawAlt, normAlt>>
sessionVars == <<ercot_access_token, data, price_column, report_type,
                 location_input, show_analysis, memo, last, seen, requests,
                 exchanges>>
vars == <<pipeVars, hourVars, sessionVars>>

----------------------------------------------------------------------------
\* Bounds of the model.

\* rows in an input row set
MaxRows == 3
\* Fetch Data clicks in a session
MaxFetches == 2

----------------------------------------------------------------------------
\* Cells.

Str(s) == <<"str", s>>
Int_(n) == <<"int", n>>
Null == <<"null">>
Ts(t) == <<"ts", t>>
NaT == <<"NaT">>
NaN == <<"nan">>

Abs(n) == IF n < 0 THEN -n ELSE n

RECURSIVE GCD(_, _)
GCD(a, b) == IF b = 0 THEN a ELSE GCD(b, a % b)

\* the float n/d, d > 0
Num(n, d) == LET g == GCD(Abs(n), d) IN <<"num", n \div g, d \div g>>

IsNum(c) == c[1] = "num"
IsTs(c) == c[1] = "ts"

DigitChars == {"0", "1", "2", "3", "4", "5", "6", "7", "8", "9"}

DigitVal(c) ==
    CASE c = "0" -> 0 [] c = "1" -> 1 [] c = "2" -> 2 [] c = "3" -> 3
      [] c = "4" -> 4 [] c = "5" -> 5 [] c = "6" -> 6 [] c = "7" -> 7
      [] c = "8" -> 8 [] c = "9" -> 9

AllDigits(s) == Len(s) > 0 /\ \A i \in 1..Len(s) : s[i] \in DigitChars

RECURSIVE DigitsVal(_)
DigitsVal(s) ==
    IF s = <<>> THEN 0
    ELSE 10 * DigitsVal(SubSeq(s, 1, Len(s) - 1)) + DigitVal(s[Len(s)])

RECURSIVE Pow10(_)
Pow10(k) == IF k = 0 THEN 1 ELSE 10 * Pow10(k - 1)

\* Python's int(s) on a string: <<n>>, or <<>> where it raises ValueError.
PyInt(s) ==
    LET neg == Len(s) > 0 /\ s[1] = "-"
        body == IF neg THEN Tail(s) ELSE s
    IN  IF AllDigits(body)
        THEN <<IF neg THEN -DigitsVal(body) ELSE DigitsVal(body)>>
        ELSE <<>>

\* str.split(sep)[0]: the text before the first separator
RECURSIVE SplitFirst(_, _)
SplitFirst(s, sep) ==
    IF s = <<>> \/ Head(s) = sep THEN <<>>
    ELSE <<Head(s)>> \o SplitFirst(Tail(s), sep)

DigitChar(n) ==
    CASE n = 0 -> "0" [] n = 1 -> "1" [] n = 2 -> "2" [] n = 3 -> "3"
      [] n = 4 -> "4" [] n = 5 -> "5" [] n = 6 -> "6" [] n = 7 -> "7"
      [] n = 8 -> "8" [] n = 9 -> "9"

RECURSIVE NatStr(_)
NatStr(n) == IF n < 10 THEN <<DigitChar(n)>>
             ELSE NatStr(n \div 10) \o <<DigitChar(n % 10)>>

\* Series.astype(str) on one cell
AsTypeStr(c) ==
    CASE c[1] = "str" -> c[2]
      [] c[1] = "int" -> IF c[2] < 0 THEN <<"-">> \o NatStr(-c[2]) ELSE NatStr(c[2])
      [] c[1] = "null" -> <<"N", "o", "n", "e">>

\* Series.astype(int) on one cell: <<n>>, or <<>> where it raises
AsTypeInt(c) ==
    CASE c[1] = "int" -> <<c[2]>>
      [] c[1] = "str" -> PyInt(c[2])
      [] c[1] = "null" -> <<>>

\* pd.to_numeric(errors='coerce') on one cell: digits with an optional sign and
\* an optional decimal point
ToNumeric(c) ==
    CASE c[1] = "num" -> c
      [] c[1] = "nan" -> NaN
      [] c[1] = "int" -> Num(c[2], 1)
      [] c[1] = "null" -> NaN
      [] c[1] = "str" ->
            LET s == c[2]
                neg == Len(s) > 0 /\ s[1] = "-"
                body == IF neg THEN Tail(s) ELSE s
                ip == SplitFirst(body, ".")
                fp == IF Len(ip) = Len(body) THEN <<>>
                      ELSE SubSeq(body, Len(ip) + 2, Len(body))
                ok == /\ AllDigits(ip)
                      /\ \A i \in 1..Len(fp) : fp[i] \in DigitChars
                mag == DigitsVal(ip) * Pow10(Len(fp)) + DigitsVal(fp)
            IN  IF ok THEN Num(IF neg THEN -mag ELSE mag, Pow10(Len(fp)))
                ELSE NaN

\* the ISO dates and timestamps of the responses, as strings
Date1 == <<"2", "0", "2", "4", "-", "0", "1", "-", "0", "1">>
Date2 == <<"2", "0", "2", "4", "-", "0", "1", "-", "0", "2">>
DateBad == <<"2", "0", "2", "4", "-", "0", "2", "-", "3", "0">>
Clock0005 == <<"T", "0", "0", ":", "0", "5", ":", "0", "0">>
Clock0050 == <<"T", "0", "0", ":", "5", "0", ":", "0", "0">>
Clock0310 == <<"T", "0", "3", ":", "1", "0", ":", "0", "0">>
Clock0600 == <<"T", "0", "6", ":", "0", "0", ":", "0", "0">>
Bogus == <<"b", "o", "g", "u", "s">>

\* pd.to_datetime(errors='coerce') on one cell
ToDatetime(c) ==
    CASE c[1] = "ts" -> c
      [] c[1] = "NaT" -> NaT
      [] c[1] = "null" -> NaT
      [] c[1] = "str" ->
            CASE c[2] = Date1 -> Ts(0)
              [] c[2] = Date2 -> Ts(1440)
              [] c[2] = Date1 \o Clock0005 -> Ts(5)
              [] c[2] = Date1 \o Clock0050 -> Ts(50)
              [] c[2] = Date1 \o Clock0310 -> Ts(190)
              [] c[2] = Date1 \o Clock0600 -> Ts(360)
              [] c[2] = Date2 \o Clock0005 -> Ts(1445)
              [] OTHER -> NaT

\* datetime + pd.to_timedelta(hours, unit='h')
AddHours(t, h) == IF t = NaT THEN NaT ELSE Ts(t[2] + 60 * h)

----------------------------------------------------------------------------
\* DataFrames.

EmptyFrame == [cols |-> <<>>, rows |-> <<>>]

\* DataFrame.empty: an axis of length 0
IsEmpty(df) == Len(df.rows) = 0 \/ Len(df.cols) = 0

Columns(df) == {df.cols[i] : i \in 1..Len(df.cols)}

RECURSIVE SelectSeq2(_, _, _)
\* the elements of s at the indices in keep, in order
SelectSeq2(s, keep, i) ==
    IF i > Len(s) THEN <<>>
    ELSE (IF i \in keep THEN <<s[i]>> ELSE <<>>) \o SelectSeq2(s, keep, i + 1)

RECURSIVE Perms(_)
Perms(S) ==
    IF S = {} THEN {<<>>}
    ELSE UNION {{<<x>> \o p : p \in Perms(S \ {x})} : x \in S}

RECURSIVE SortedOrders(_, _)
\* every order of the indices I in which rows is non-decreasing by 'datetime'
SortedOrders(rows, I) ==
    IF I = {} THEN {<<>>}
    ELSE LET m == CHOOSE i \in I : \A j \in I : rows[i].datetime[2] <= rows[j].datetime[2]
             M == {i \in I : rows[i].datetime[2] = rows[m].datetime[2]}
         IN  UNION {{p \o q : q \in SortedOrders(rows, I \ M)} : p \in Perms(M)}

\* DataFrame.sort_values(by='datetime') with the default kind='quicksort',
\* which is not stable: rows with equal keys may come out in any order
sort_values(rows) ==
    {[i \in 1..Len(p) |-> rows[p[i]]] : p \in SortedOrders(rows, DOMAIN rows)}

RECURSIVE FirstOccurrences(_, _)
\* drop_duplicates(subset='datetime', keep='first')
FirstOccurrences(rows, i) ==
    IF i > Len(rows) THEN <<>>
    ELSE (IF \E j \in 1..(i - 1) : rows[j].datetime = rows[i].datetime
          THEN <<>> ELSE <<rows[i]>>) \o FirstOccurrences(rows, i + 1)

\* dropna followed by a collapse of equal timestamps to their first row
dropna_deduplicated(rows, price_column_name) ==
    FirstOccurrences(
        SelectSeq2(rows,
                   {i \in DOMAIN rows : /\ rows[i].datetime # NaT
                                        /\ rows[i][price_column_name] # NaN},
                   1), 1)

\* df.dropna(subset=['datetime', price_column_name])
dropna(rows, price_column_name) ==
    SelectSeq2(rows,
               {i \in DOMAIN rows : /\ rows[i].datetime # NaT
                                    /\ rows[i][price_column_name] # NaN},
               1)

\* the chain with the hour-ending test ahead of the SCEDTimestamp test
DetectEncodingHourFirst(cols) ==
    IF "deliveryDate" \in cols /\ "hourEnding" \in cols THEN "hourEnding"
    ELSE IF "SCEDTimestamp" \in cols THEN "SCEDTimestamp"
    ELSE IF "deliveryDate" \in cols /\ "deliveryHour" \in cols THEN "deliveryHour"
    ELSE "none"

\* which timestamp encoding the if/elif chain selects for a set of columns
DetectEncoding(cols) ==
    IF "SCEDTimestamp" \in cols THEN "SCEDTimestamp"
    ELSE IF "deliveryDate" \in cols /\ "hourEnding" \in cols THEN "hourEnding"
    ELSE IF "deliveryDate" \in cols /\ "deliveryHour" \in cols THEN "deliveryHour"
    ELSE "none"

\* the hour taken as the offset, without the - 1
HourOffsetUnshifted(hour) == hour

\* df['hour'] - 1: the offset of "hour ending N" from midnight, in hours
HourOffset(hour) == hour - 1

\* the 'hour' column of one row: <<n>>, or <<>> where the conversion raises
HourOf(row, enc) ==
    IF enc = "hourEnding"
    THEN PyInt(SplitFirst(AsTypeStr(row.hourEnding), ":"))
    ELSE AsTypeInt(row.deliveryHour)

\* the 'datetime' column of one row whose 'hour' converted
DatetimeOf(row, enc) ==
    IF enc = "SCEDTimestamp" THEN ToDatetime(row.SCEDTimestamp)
    ELSE AddHours(ToDatetime(row.deliveryDate), HourOffset(HourOf(row, enc)[1]))

LocationColumns == <<"settlementPoint", "busName", "electricalBus">>

\* every column kept: 'datetime', the price and all the input's own columns
all_columns(df, price_column_name) ==
    <<"datetime", price_column_name>>
        \o SelectSeq(df.cols, LAMBDA c : c \notin {"datetime", price_column_name})

essential_columns(df, price_column_name) ==
    <<"datetime", price_column_name>>
        \o SelectSeq(LocationColumns, LAMBDA c : c \in Columns(df))

\* The outcomes of process_and_normalize_data(df, price_column_name): the frame
\* returned, the st.info line of the branch taken, the st.error raised to the
\* user and the columns listed with it.
process_and_normalize_data(df, price_column_name) ==
    LET enc == DetectEncoding(Columns(df))
        out(frame, info, error, shown) ==
            [frame |-> frame, info |-> info, error |-> error, shown |-> shown]
        raises == \/ /\ enc \in {"hourEnding", "deliveryHour"}
                     /\ \E i \in DOMAIN df.rows : HourOf(df.rows[i], enc) = <<>>
                  \/ price_column_name \notin Columns(df)
        ess == essential_columns(df, price_column_name)
        essSet == {ess[i] : i \in 1..Len(ess)}
        \* the frame with its 'datetime' column added and its price coerced
        full == [i \in DOMAIN df.rows |->
                    [c \in Columns(df) \cup {"datetime"} |->
                        IF c = "datetime" THEN DatetimeOf(df.rows[i], enc)
                        ELSE IF c = price_column_name
                             THEN ToNumeric(df.rows[i][c])
                             ELSE df.rows[i][c]]]
        kept == dropna(full, price_column_name)
    IN  IF IsEmpty(df) THEN {out(EmptyFrame, "", "", <<>>)}
        ELSE IF enc = "none" THEN {out(EmptyFrame, "", "unrecognized", df.cols)}
        ELSE IF raises THEN {out(EmptyFrame, enc, "failed", <<>>)}
        ELSE {out([cols |-> ess,
                   rows |-> [i \in DOMAIN s |-> [c \in essSet |-> s[i][c]]]],
                  enc, "", <<>>) : s \in sort_values(kept)}

----------------------------------------------------------------------------
\* Floats.

AddNum(a, b) == Num(a[2] * b[3] + b[2] * a[3], a[3] * b[3])

LessEq(a, b) == a[2] * b[3] <= b[2] * a[3]

RECURSIVE SumNums(_)
SumNums(s) == IF s = <<>> THEN Num(0, 1) ELSE AddNum(Head(s), SumNums(Tail(s)))

\* Series.mean(): NaN values are skipped, and the mean of none is NaN
Mean(s) ==
    LET v == SelectSeq(s, IsNum)
        t == SumNums(v)
    IN  IF v = <<>> THEN NaN ELSE Num(t[2], t[3] * Len(v))

RECURSIVE Insert(_, _)
Insert(x, s) ==
    IF s = <<>> THEN <<x>>
    ELSE IF LessEq(x, Head(s)) THEN <<x>> \o s
    ELSE <<Head(s)>> \o Insert(x, Tail(s))

RECURSIVE Ascending(_)
Ascending(s) == IF s = <<>> THEN <<>> ELSE Insert(Head(s), Ascending(Tail(s)))

Median(s) ==
    LET v == Ascending(SelectSeq(s, IsNum))
        n == Len(v)
    IN  IF n = 0 THEN NaN
        ELSE IF n % 2 = 1 THEN v[(n + 1) \div 2]
        ELSE LET t == AddNum(v[n \div 2], v[n \div 2 + 1]) IN Num(t[2], t[3] * 2)

Highest(s) ==
    LET v == Ascending(SelectSeq(s, IsNum)) IN IF v = <<>> THEN NaN ELSE v[Len(v)]

Lowest(s) ==
    LET v == Ascending(SelectSeq(s, IsNum)) IN IF v = <<>> THEN NaN ELSE v[1]

\* the values of one column, as a sequence
Column(rows, c) == [i \in 1..Len(rows) |-> rows[i][c]]

----------------------------------------------------------------------------
\* resample_to_hourly_average

\* the start of the hour a timestamp falls in
HourFloor(t) == (t \div 60) * 60

RECURSIVE ObservedMeans(_, _, _)
\* groupby(hour floor).mean(): one row per hour that holds a sample
ObservedMeans(rows, price_column_name, floors) ==
    IF floors = {} THEN <<>>
    ELSE LET h == CHOOSE x \in floors : \A y \in floors : x <= y
             g == SelectSeq2(Column(rows, price_column_name),
                             {i \in 1..Len(rows) :
                                 HourFloor(rows[i].datetime[2]) = h}, 1)
         IN  <<[c \in {"datetime", price_column_name} |->
                    IF c = "datetime" THEN Ts(h) ELSE Mean(g)]>>
                \o ObservedMeans(rows, price_column_name, floors \ {h})

ResampleObserved(rows, price_column_name) ==
    ObservedMeans(rows, price_column_name,
                  {HourFloor(rows[i].datetime[2]) : i \in 1..Len(rows)})

\* Series.resample('H').mean().reset_index(): one row per hour from the first
\* observed hour to the last, whether or not the hour holds a sample
ResampleMean(rows, price_column_name) ==
    LET floors == {HourFloor(rows[i].datetime[2]) : i \in 1..Len(rows)}
        first == CHOOSE h \in floors : \A g \in floors : h <= g
        final == CHOOSE h \in floors : \A g \in floors : g <= h
        bucket(h) == SelectSeq2(Column(rows, price_column_name),
                                {i \in 1..Len(rows) :
                                    HourFloor(rows[i].datetime[2]) = h}, 1)
    IN  [k \in 1..((final - first) \div 60 + 1) |->
            LET h == first + 60 * (k - 1)
            IN  [c \in {"datetime", price_column_name} |->
                    IF c = "datetime" THEN Ts(h) ELSE Mean(bucket(h))]]

resample_to_hourly_average(df, price_column_name) ==
    IF IsEmpty(df) \/ "datetime" \notin Columns(df) THEN EmptyFrame
    ELSE [cols |-> <<"datetime", price_column_name>>,
          rows |-> ResampleMean(df.rows, price_column_name)]

----------------------------------------------------------------------------
\* display_statistical_analysis

FullDay == "Full Day (24 hours)"
SolarHours == "Solar Hours (HE 7-18)"
AnalysisPeriods == {FullDay, SolarHours}

\* Series.dt.hour
ClockHour(t) == (t % 1440) \div 60

\* range(6, 17)
solar_hours_short == 6..16

\* range(6, 18)
solar_hours == 6..17

\* df_filtered: the rows the selected period keeps
FilterPeriod(rows, analysis_period) ==
    IF analysis_period = SolarHours
    THEN SelectSeq2(rows, {i \in 1..Len(rows) :
                              ClockHour(rows[i].datetime[2]) \in solar_hours}, 1)
    ELSE rows

RECURSIVE HourlyAvg(_, _, _)
\* groupby('hour')[price_column].mean().reset_index(): one <<hour, mean>> per
\* clock hour present, by ascending hour
HourlyAvg(rows, price_column_name, hours) ==
    IF hours = {} THEN <<>>
    ELSE LET h == CHOOSE x \in hours : \A y \in hours : x <= y
             g == SelectSeq2(Column(rows, price_column_name),
                             {i \in 1..Len(rows) :
                                 ClockHour(rows[i].datetime[2]) = h}, 1)
         IN  <<<<h, Mean(g)>>>> \o HourlyAvg(rows, price_column_name, hours \ {h})

\* What one run of display_statistical_analysis renders: the st.warning and
\* nothing else, or the four metrics and the hour-of-day table.
display_statistical_analysis(df, price_column_name, analysis_period) ==
    LET df_filtered == FilterPeriod(df.rows, analysis_period)
        prices == Column(df_filtered, price_column_name)
    IN  IF Len(df_filtered) = 0
        THEN [kind |-> "no_data", period |-> analysis_period,
              filtered |-> <<>>, metrics |-> <<>>, hourly_avg |-> <<>>]
        ELSE [kind |-> "summary", period |-> analysis_period,
              filtered |-> df_filtered,
              metrics |-> <<Mean(prices), Median(prices), Highest(prices),
                            Lowest(prices)>>,
              hourly_avg |-> HourlyAvg(df_filtered, price_column_name,
                                {ClockHour(df_filtered[i].datetime[2]) :
                                    i \in 1..Len(df_filtered)})]

----------------------------------------------------------------------------
\* REPORT_CONFIG

ReportTypes == {"DAM - LMPs (by Bus)", "DAM - SPP", "RTM - LMPs (by Bus)", "RTM - SPP"}

REPORT_CONFIG(report) ==
    CASE report = "DAM - LMPs (by Bus)" ->
            [url |-> "np4-183-cd/dam_hourly_lmp", price_column |-> "LMP",
             location_param |-> "busName", date_param_prefix |-> "deliveryDate",
             resample |-> FALSE]
      [] report = "DAM - SPP" ->
            [url |-> "np4-190-cd/dam_stlmnt_pnt_prices",
             price_column |-> "settlementPointPrice",
             location_param |-> "settlementPoint",
             date_param_prefix |-> "deliveryDate", resample |-> FALSE]
      [] report = "RTM - LMPs (by Bus)" ->
            [url |-> "np6-787-cd/lmp_electrical_bus", price_column |-> "LMP",
             location_param |-> "electricalBus",
             date_param_prefix |-> "SCEDTimestamp", resample |-> FALSE]
      [] report = "RTM - SPP" ->
            [url |-> "np6-905-cd/spp_node_zone_hub",
             price_column |-> "settlementPointPrice",
             location_param |-> "settlementPoint",
             date_param_prefix |-> "deliveryDate", resample |-> TRUE]

----------------------------------------------------------------------------
\* The row sets the functions are driven on: rows of the four reports, well
\* formed and malformed, and rows carrying several encodings or none.

HE(a, b) == Str(<<a, b, ":", "0", "0">>)
Price(s) == Str(s)
AEEC == Str(<<"A", "E", "E", "C">>)
HubHouston == Str(<<"H", "B">>)
Flag == Str(<<"N">>)

DamLmpCols == <<"deliveryDate", "hourEnding", "busName", "LMP", "DSTFlag">>
DamLmpRow(d, h, p) ==
    [deliveryDate |-> d, hourEnding |-> h, busName |-> AEEC, LMP |-> p,
     DSTFlag |-> Flag]
DamLmpRows ==
    { DamLmpRow(Str(Date1), HE("0", "1"), Price(<<"2", "0", ".", "5">>)),
      DamLmpRow(Str(Date1), HE("0", "2"), Price(<<"a", "b", "c">>)),
      DamLmpRow(Str(Date1), HE("2", "4"), Int_(30)),
      DamLmpRow(Str(Date1), HE("0", "1"), Price(<<"4", "0">>)),
      DamLmpRow(Str(DateBad), HE("0", "3"), Price(<<"1", "0">>)),
      DamLmpRow(Str(Date1), HE("x", "x"), Price(<<"1", "5">>)),
      DamLmpRow(Str(Date2), HE("0", "7"), Price(<<"-", "5">>)) }

DamSppCols == <<"deliveryDate", "hourEnding", "settlementPoint",
                "settlementPointPrice", "DSTFlag">>
DamSppRow(d, h, p) ==
    [deliveryDate |-> d, hourEnding |-> h, settlementPoint |-> HubHouston,
     settlementPointPrice |-> p, DSTFlag |-> Flag]
DamSppRows ==
    { DamSppRow(Str(Date1), HE("1", "8"), Price(<<"2", "5">>)),
      DamSppRow(Str(Date1), HE("1", "9"), Null) }

RtmLmpCols == <<"SCEDTimestamp", "repeatHourFlag", "electricalBus", "LMP">>
RtmLmpRow(t, p) ==
    [SCEDTimestamp |-> t, repeatHourFlag |-> Flag, electricalBus |-> AEEC,
     LMP |-> p]
RtmLmpRows ==
    { RtmLmpRow(Str(Date1 \o Clock0005), Price(<<"1", "0">>)),
      RtmLmpRow(Str(Date1 \o Clock0050), Price(<<"2", "0">>)),
      RtmLmpRow(Str(Date1 \o Clock0310), Int_(30)),
      RtmLmpRow(Str(Date1 \o Clock0600), Null),
      RtmLmpRow(Str(Bogus), Price(<<"5", "0">>)),
      RtmLmpRow(Str(Date1 \o Clock0005), Price(<<"4", "0">>)) }

RtmSppCols == <<"deliveryDate", "deliveryHour", "deliveryInterval",
                "settlementPoint", "settlementPointPrice">>
RtmSppRow(d, h, k, p) ==
    [deliveryDate |-> d, deliveryHour |-> h, deliveryInterval |-> Int_(k),
     settlementPoint |-> HubHouston, settlementPointPrice |-> p]
RtmSppRows ==
    { RtmSppRow(Str(Date1), Int_(1), 1, Int_(10)),
      RtmSppRow(Str(Date1), Int_(1), 2, Int_(20)),
      RtmSppRow(Str(Date1), Int_(4), 1, Price(<<"4", "0">>)),
      RtmSppRow(Str(Date1), Null, 2, Int_(5)),
      RtmSppRow(Str(Date1), Str(<<"8">>), 3, Price(<<"7">>)) }

\* every encoding at once, each naming a different time
AllCols == <<"SCEDTimestamp", "deliveryDate", "hourEnding", "deliveryHour", "LMP">>
AllRow(t, d, h, n, p) ==
    [SCEDTimestamp |-> t, deliveryDate |-> d, hourEnding |-> h,
     deliveryHour |-> n, LMP |-> p]
AllRows ==
    { AllRow(Str(Date1 \o Clock0005), Str(Date2), HE("0", "3"), Int_(9), Int_(10)),
      AllRow(Str(Date1 \o Clock0310), Str(Date2), HE("x", "x"), Null, Int_(20)),
      AllRow(Str(Bogus), Str(Date1), HE("0", "1"), Int_(1), Int_(30)) }

\* both hour encodings, each naming a different hour
BothHourCols == <<"deliveryDate", "hourEnding", "deliveryHour", "LMP">>
BothHourRow(d, h, n, p) ==
    [deliveryDate |-> d, hourEnding |-> h, deliveryHour |-> n, LMP |-> p]
BothHourRows ==
    { BothHourRow(Str(Date1), HE("0", "3"), Int_(9), Int_(10)),
      BothHourRow(Str(Date1), HE("0", "5"), Null, Int_(20)),
      BothHourRow(Str(Date2), Int_(1), Int_(2), Price(<<"a", "b", "c">>)) }

\* no encoding: a date without an hour, hours without a date, a canonical frame
DateOnlyCols == <<"deliveryDate", "busName", "LMP">>
DateOnlyRows ==
    { [deliveryDate |-> Str(Date1), busName |-> AEEC, LMP |-> Int_(10)],
      [deliveryDate |-> Str(Date2), busName |-> AEEC, LMP |-> Int_(20)] }
HoursOnlyCols == <<"hourEnding", "deliveryHour", "LMP">>
HoursOnlyRows ==
    { [hourEnding |-> HE("0", "1"), deliveryHour |-> Int_(1), LMP |-> Int_(10)],
      [hourEnding |-> HE("0", "2"), deliveryHour |-> Int_(2), LMP |-> Int_(20)] }
CanonicalCols == <<"datetime", "LMP">>
CanonicalRows ==
    { [datetime |-> Ts(0), LMP |-> Num(10, 1)],
      [datetime |-> Ts(60), LMP |-> Num(20, 1)] }

\* a recognized encoding without the price field
NoPriceCols == <<"deliveryDate", "hourEnding", "busName">>
NoPriceRows ==
    { [deliveryDate |-> Str(Date1), hourEnding |-> HE("0", "1"), busName |-> AEEC],
      [deliveryDate |-> Str(Date1), hourEnding |-> HE("0", "2"), busName |-> AEEC] }

\* one day of hourly prices, hour ending 01:00 to 24:00
FullDayFrame ==
    [cols |-> DamLmpCols,
     rows |-> [n \in 1..24 |->
                  DamLmpRow(Str(Date1), HE(DigitChar(n \div 10), DigitChar(n % 10)),
                            Int_(n))]]

\* one hour of 15-minute prices
QuarterHourFrame ==
    [cols |-> RtmSppCols,
     rows |-> [k \in 1..4 |-> RtmSppRow(Str(Date1), Int_(1), k, Int_(10 * k))]]

FramesOver(cols, R) ==
    {[cols |-> cols, rows |-> s] : s \in UNION {[1..n -> R] : n \in 0..MaxRows}}

\* the (frame, price field) pairs the pipeline is driven on
Inputs ==
    ({FullDayFrame} \cup FramesOver(DamLmpCols, DamLmpRows)
        \cup FramesOver(RtmLmpCols, RtmLmpRows) \cup FramesOver(AllCols, AllRows)
        \cup FramesOver(BothHourCols, BothHourRows)
        \cup FramesOver(DateOnlyCols, DateOnlyRows)
        \cup FramesOver(HoursOnlyCols, HoursOnlyRows)
        \cup FramesOver(CanonicalCols, CanonicalRows)
        \cup FramesOver(NoPriceCols, NoPriceRows)) \X {"LMP"}
    \cup
    ({QuarterHourFrame} \cup FramesOver(DamSppCols, DamSppRows)
        \cup FramesOver(RtmSppCols, RtmSppRows)) \X {"settlementPointPrice"}

----------------------------------------------------------------------------
\* The pipeline on one row set: normalize, normalize again, resample, analyse.

NoOutcome == [frame |-> EmptyFrame, info |-> "", error |-> "", shown |-> <<>>]
NoAnalysis == [of |-> EmptyFrame,
               view |-> [kind |-> "none", period |-> "", filtered |-> <<>>,
                         metrics |-> <<>>, hourly_avg |-> <<>>]]
NoCase == [day |-> 0, hour |-> 0, done |-> {}]
NoLast == [fetches |-> 0, report |-> "", location |-> "", auth |-> "",
           key |-> <<>>, seen_before |-> FALSE, requested |-> FALSE,
           response |-> "", result |-> EmptyFrame]

SessionInit ==
    /\ ercot_access_token = "None"
    /\ data = EmptyFrame
    /\ price_column = "None"
    /\ report_type = ""
    /\ location_input = ""
    /\ show_analysis = FALSE
    /\ memo = <<>>
    /\ last = NoLast
    /\ seen = <<>>
    /\ requests = 0
    /\ exchanges = 0

PipeIdle ==
    /\ raw = <<EmptyFrame, "LMP">>
    /\ norm = NoOutcome
    /\ renorm = NoOutcome
    /\ relabelled = NoOutcome
    /\ hourly = EmptyFrame
    /\ analysis = NoAnalysis

HourIdle ==
    /\ hcase = NoCase
    /\ rawAlt = <<EmptyFrame, "LMP">>
    /\ normAlt = NoOutcome

PipeInit ==
    /\ raw \in Inputs
    /\ norm = NoOutcome
    /\ renorm = NoOutcome
    /\ relabelled = NoOutcome
    /\ hourly = EmptyFrame
    /\ analysis = NoAnalysis
    /\ pc = "input"
    /\ HourIdle
    /\ SessionInit

\* the frame with its 'datetime' column presented as 'SCEDTimestamp'
Relabel(df) ==
    [cols |-> [i \in 1..Len(df.cols) |->
                  IF df.cols[i] = "datetime" THEN "SCEDTimestamp" ELSE df.cols[i]],
     rows |-> [i \in 1..Len(df.rows) |->
                  [c \in (Columns(df) \ {"datetime"}) \cup {"SCEDTimestamp"} |->
                      IF c = "SCEDTimestamp" THEN df.rows[i].datetime
                      ELSE df.rows[i][c]]]]

Normalize ==
    /\ pc = "input"
    /\ norm' \in process_and_normalize_data(raw[1], raw[2])
    /\ pc' = "normalized"
    /\ UNCHANGED <<raw, renorm, relabelled, hourly, analysis, hourVars, sessionVars>>

Renormalize ==
    /\ pc = "normalized"
    /\ renorm' \in process_and_normalize_data(norm.frame, raw[2])
    /\ pc' = "renormalized"
    /\ UNCHANGED <<raw, norm, relabelled, hourly, analysis, hourVars, sessionVars>>

RenormalizeRelabelled ==
    /\ pc = "renormalized"
    /\ relabelled' \in process_and_normalize_data(Relabel(norm.frame), raw[2])
    /\ pc' = "relabelled"
    /\ UNCHANGED <<raw, norm, renorm, hourly, analysis, hourVars, sessionVars>>

Resample ==
    /\ pc = "relabelled"
    /\ hourly' = resample_to_hourly_average(norm.frame, raw[2])
    /\ pc' = "resampled"
    /\ UNCHANGED <<raw, norm, renorm, relabelled, analysis, hourVars, sessionVars>>

\* the statistics tab, on the normalized frame or on the resampled one
Analyse ==
    /\ pc = "resampled"
    /\ \E df \in {norm.frame, hourly}, period \in AnalysisPeriods :
          /\ ~IsEmpty(df)
          /\ analysis' = [of |-> df,
                           view |-> display_statistical_analysis(df, raw[2], period)]
    /\ pc' = "analysed"
    /\ UNCHANGED <<raw, norm, renorm, relabelled, hourly, hourVars, sessionVars>>

PipeNext == Normalize \/ Renormalize \/ RenormalizeRelabelled \/ Resample \/ Analyse

SpecPipe == PipeInit /\ [][PipeNext]_vars

----------------------------------------------------------------------------
\* The hour-ending law: one (date, hour ending N) row, written once with the
\* hour as the string "NN:00" and once as the integer N.

DayStr(d) == IF d = 0 THEN Date1 ELSE Date2

HourEndingFrame(d, n, p) ==
    [cols |-> <<"deliveryDate", "hourEnding", "settlementPoint", "settlementPointPrice">>,
     rows |-> <<[deliveryDate |-> Str(DayStr(d)),
                 hourEnding |-> HE(DigitChar(n \div 10), DigitChar(n % 10)),
                 settlementPoint |-> HubHouston,
                 settlementPointPrice |-> p]>>]

DeliveryHourFrame(d, n, p) ==
    [cols |-> <<"deliveryDate", "deliveryHour", "settlementPoint", "settlementPointPrice">>,
     rows |-> <<[deliveryDate |-> Str(DayStr(d)),
                 deliveryHour |-> Int_(n),
                 settlementPoint |-> HubHouston,
                 settlementPointPrice |-> p]>>]

HourInit ==
    /\ \E d \in 0..1, n \in 1..24, p \in {Int_(10), Price(<<"2", "0", ".", "5">>)} :
          /\ hcase = [day |-> d, hour |-> n, done |-> {}]
          /\ raw = <<HourEndingFrame(d, n, p), "settlementPointPrice">>
          /\ rawAlt = <<DeliveryHourFrame(d, n, p), "settlementPointPrice">>
    /\ norm = NoOutcome
    /\ normAlt = NoOutcome
    /\ renorm = NoOutcome
    /\ relabelled = NoOutcome
    /\ hourly = EmptyFrame
    /\ analysis = NoAnalysis
    /\ pc = "hours"
    /\ SessionInit

NormalizeHourEnding ==
    /\ pc = "hours"
    /\ "hourEnding" \notin hcase.done
    /\ norm' \in process_and_normalize_data(raw[1], raw[2])
    /\ hcase' = [hcase EXCEPT !.done = @ \cup {"hourEnding"}]
    /\ UNCHANGED <<raw, renorm, relabelled, hourly, analysis, pc, rawAlt,
                   normAlt, sessionVars>>

NormalizeDeliveryHour ==
    /\ pc = "hours"
    /\ "deliveryHour" \notin hcase.done
    /\ normAlt' \in process_and_normalize_data(rawAlt[1], rawAlt[2])
    /\ hcase' = [hcase EXCEPT !.done = @ \cup {"deliveryHour"}]
    /\ UNCHANGED <<pipeVars, rawAlt, sessionVars>>

HourNext == NormalizeHourEnding \/ NormalizeDeliveryHour

SpecHour == HourInit /\ [][HourNext]_vars

\* C1: hour ending N of date d, N in 1..24, becomes d + (N-1) hours, whether N
\* arrives as the string "NN:00" or as the integer N: hour ending 1 is 00:00
\* and hour ending 24 is 23:00 of the same date, and the two encodings give
\* the same normalized frame.
HourEndingLaw ==
    LET t == 1440 * hcase.day + 60 * (hcase.hour - 1)
        right(o) == /\ o.error = ""
                    /\ Len(o.frame.rows) = 1
                    /\ o.frame.rows[1].datetime = Ts(t)
                    /\ o.frame.rows[1].datetime[2] \div 1440 = hcase.day
                    /\ ClockHour(o.frame.rows[1].datetime[2]) = hcase.hour - 1
    IN  /\ "hourEnding" \in hcase.done => right(norm)
        /\ "deliveryHour" \in hcase.done => right(normAlt)
        /\ hcase.done = {"hourEnding", "deliveryHour"} => norm.frame = normAlt.frame

\* hour ending 24 of the second day, normalized from both encodings, is 23:00
HourEndingLawWitness ==
    /\ hcase.done = {"hourEnding", "deliveryHour"}
    /\ hcase.hour = 24
    /\ hcase.day = 1
    /\ norm.frame.rows[1].datetime = Ts(1440 + 23 * 60)
    /\ normAlt.frame.rows[1].datetime = Ts(1440 + 23 * 60)

----------------------------------------------------------------------------
\* Properties of the pipeline.

Count(s, x) == Cardinality({i \in 1..Len(s) : s[i] = x})

SameBag(s, t) ==
    /\ Len(s) = Len(t)
    /\ \A i \in 1..Len(s) : Count(s, s[i]) = Count(t, s[i])

\* the <<datetime, price>> pairs of a normalized frame, in order
Samples(df, price_column_name) ==
    [i \in 1..Len(df.rows) |-> <<df.rows[i].datetime, df.rows[i][price_column_name]>>]

\* whether row parses under encoding enc: its hour, its timestamp and its price
RowParses(row, enc, price_column_name) ==
    /\ enc \in {"hourEnding", "deliveryHour"} => HourOf(row, enc) # <<>>
    /\ DatetimeOf(row, enc) # NaT
    /\ ToNumeric(row[price_column_name]) # NaN

\* the samples of the input rows that parse under enc, in input order
ParsedSamples(df, enc, price_column_name) ==
    LET ok == {i \in 1..Len(df.rows) : RowParses(df.rows[i], enc, price_column_name)}
        rs == SelectSeq2(df.rows, ok, 1)
    IN  [i \in 1..Len(rs) |->
            <<DatetimeOf(rs[i], enc), ToNumeric(rs[i][price_column_name])>>]

NonDecreasing(rows) ==
    \A i \in 1..(Len(rows) - 1) : rows[i].datetime[2] <= rows[i + 1].datetime[2]

Normalized == pc \in {"normalized", "renormalized", "relabelled", "resampled", "analysed"}

\* the encoding the documented order selects: the first of the three whose
\* fields are all present
FirstMatch(cols) ==
    LET order == <<"SCEDTimestamp", "hourEnding", "deliveryHour">>
        needs(e) == IF e = "SCEDTimestamp" THEN {"SCEDTimestamp"}
                    ELSE {"deliveryDate", e}
        hits == {i \in 1..3 : needs(order[i]) \subseteq cols}
    IN  IF hits = {} THEN "none"
        ELSE order[CHOOSE i \in hits : \A j \in hits : i <= j]

\* C2 (as claimed): for a non-empty row set with a recognized encoding and its
\* price field, the output holds exactly one sample per input row whose
\* timestamp fields and price parse; a malformed row, an unparsable hour
\* included, removes only itself.
DropsExactlyMalformedRows ==
    (/\ Normalized
     /\ ~IsEmpty(raw[1])
     /\ FirstMatch(Columns(raw[1])) # "none"
     /\ raw[2] \in Columns(raw[1]))
    => SameBag(Samples(norm.frame, raw[2]),
               ParsedSamples(raw[1], FirstMatch(Columns(raw[1])), raw[2]))

FirstMatchWins ==
    (Normalized /\ ~IsEmpty(raw[1]))
    => LET enc == FirstMatch(Columns(raw[1]))
       IN  IF enc = "none"
           THEN /\ norm.error = "unrecognized"
                /\ norm.shown = raw[1].cols
                /\ norm.frame = EmptyFrame
           ELSE /\ norm.info = enc
                /\ norm.error \in {"", "failed"}
                /\ (enc = "SCEDTimestamp" /\ raw[2] \in Columns(raw[1]))
                        => norm.error = ""
                /\ norm.error = ""
                        => SameBag(Samples(norm.frame, raw[2]),
                                   ParsedSamples(raw[1], enc, raw[2]))
                /\ norm.error = "failed" => norm.frame = EmptyFrame

\* rows that carry all three encodings, normalized by SCEDTimestamp
FirstMatchWinsWitness ==
    /\ Normalized
    /\ {"SCEDTimestamp", "deliveryDate", "hourEnding", "deliveryHour"}
            \subseteq Columns(raw[1])
    /\ norm.info = "SCEDTimestamp"
    /\ Len(norm.frame.rows) >= 2

Renormalized == pc \in {"relabelled", "resampled", "analysed"}

\* C7 (as claimed): normalizing the output again yields the same series.
NormalizationIdempotent ==
    Renormalized => renorm.frame.rows = norm.frame.rows

\* C7 (amended): the output names its timestamp 'datetime', which is none of
\* the recognized timestamp fields, so passing a non-empty output back in
\* reports the unrecognized schema and returns the empty series; the series is
\* reproduced (same columns, same samples, non-decreasing by timestamp) only
\* when its 'datetime' column is presented as 'SCEDTimestamp'.
RenormalizationNeedsRecognizedField ==
    Renormalized
    => /\ IF IsEmpty(norm.frame)
          THEN renorm.frame = EmptyFrame /\ renorm.error = ""
          ELSE /\ renorm.frame = EmptyFrame
               /\ renorm.error = "unrecognized"
               /\ renorm.shown = norm.frame.cols
       /\ SameBag(relabelled.frame.rows, norm.frame.rows)
       /\ NonDecreasing(relabelled.frame.rows)
       /\ ~IsEmpty(norm.frame) => /\ relabelled.frame.cols = norm.frame.cols
                                  /\ relabelled.error = ""

\* a series of several samples, rejected as it stands and reproduced relabelled
RenormalizationWitness ==
    /\ Renormalized
    /\ Len(norm.frame.rows) >= 2
    /\ renorm.error = "unrecognized"
    /\ Len(relabelled.frame.rows) = Len(norm.frame.rows)

Resampled == pc \in {"resampled", "analysed"}

\* the indices of the normalized samples in the hour starting at h
Bucket(h) ==
    {i \in 1..Len(norm.frame.rows) : HourFloor(norm.frame.rows[i].datetime[2]) = h}

HourFilterFirst ==
    pc = "analysed"
    => LET v == analysis.view
           rows == analysis.of.rows
           keep == IF v.period = SolarHours
                   THEN {i \in 1..Len(rows) :
                            /\ ClockHour(rows[i].datetime[2]) >= 6
                            /\ ClockHour(rows[i].datetime[2]) <= 17}
                   ELSE 1..Len(rows)
           hours == {ClockHour(rows[i].datetime[2]) : i \in keep}
       IN  /\ v.period \in AnalysisPeriods
           /\ IF keep = {}
              THEN /\ v.kind = "no_data"
                   /\ v.metrics = <<>>
                   /\ v.hourly_avg = <<>>
              ELSE /\ v.kind = "summary"
                   /\ v.filtered = SelectSeq2(rows, keep, 1)
                   /\ Len(v.metrics) = 4
                   /\ Len(v.hourly_avg) = Cardinality(hours)
                   /\ {v.hourly_avg[k][1] : k \in 1..Len(v.hourly_avg)} = hours
           /\ (raw[1] = FullDayFrame /\ v.period = SolarHours /\ Len(rows) = 24)
                 => Len(v.filtered) = 12

\* the solar-hours analysis of a full day of hourly samples
HourFilterFirstWitness ==
    /\ pc = "analysed"
    /\ raw[1] = FullDayFrame
    /\ Len(analysis.of.rows) = 24
    /\ analysis.view.period = SolarHours
    /\ Len(analysis.view.filtered) = 12
    /\ Len(analysis.view.hourly_avg) = 12

----------------------------------------------------------------------------
\* The session: the script run of a "Fetch Data" click, and the rerun of a
\* change of the analysis period.

\* the bearer token the identity provider issues, and the subscription key
AccessToken == "access-token"
ERCOT_SUBSCRIPTION_KEY == "subscription-key"

\* what the token endpoint may answer: a body with access_token, a body
\* without, an HTTP error
AuthResponses == {"token", "no_token", "http_error"}

\* the text the user may have in the location box, and the dates picked
Locations == {"AEEC", "HB_HOUSTON"}
StartDate == "2024-01-01"
EndDate == "2024-01-01"

\* get_ercot_token: the session's token after the exchange
get_ercot_token(stored, auth_response) ==
    IF auth_response = "token" THEN AccessToken ELSE stored

\* an answer of the report API: a failed request, a body that is not JSON, or
\* the envelope {_meta: {totalRecords}, fields, data}
Failure(e) == [error |-> e, totalRecords |-> 0, fields |-> <<>>, data |-> <<>>]
Envelope(n, fields, rows) ==
    [error |-> "", totalRecords |-> n, fields |-> fields, data |-> rows]

ApiFrames(report) ==
    CASE report = "DAM - LMPs (by Bus)" ->
            { <<DamLmpRow(Str(Date1), HE("0", "7"), Price(<<"2", "0", ".", "5">>)),
                DamLmpRow(Str(Date1), HE("0", "2"), Price(<<"a", "b", "c">>)),
                DamLmpRow(Str(Date1), HE("0", "7"), Int_(30))>>,
              <<DamLmpRow(Str(Date1), HE("0", "1"), Int_(10)),
                DamLmpRow(Str(Date1), HE("x", "x"), Int_(15))>> }
      [] report = "DAM - SPP" ->
            { <<DamSppRow(Str(Date1), HE("1", "9"), Null),
                DamSppRow(Str(Date1), HE("1", "8"), Price(<<"2", "5">>))>> }
      [] report = "RTM - LMPs (by Bus)" ->
            { <<RtmLmpRow(Str(Date1 \o Clock0310), Int_(30)),
                RtmLmpRow(Str(Bogus), Price(<<"5", "0">>)),
                RtmLmpRow(Str(Date1 \o Clock0005), Price(<<"1", "0">>))>> }
      [] report = "RTM - SPP" ->
            { <<RtmSppRow(Str(Date1), Int_(1), 1, Int_(10)),
                RtmSppRow(Str(Date1), Int_(1), 2, Int_(20)),
                RtmSppRow(Str(Date1), Int_(4), 1, Price(<<"4", "0">>))>>,
              <<RtmSppRow(Str(Date1), Null, 1, Int_(10))>> }

ReportCols(report) ==
    CASE report = "DAM - LMPs (by Bus)" -> DamLmpCols
      [] report = "DAM - SPP" -> DamSppCols
      [] report = "RTM - LMPs (by Bus)" -> RtmLmpCols
      [] report = "RTM - SPP" -> RtmSppCols

ApiResponses(report) ==
    {Failure("http_401"), Failure("network_error"), Failure("not_json"),
     Envelope(0, ReportCols(report), <<>>),
     Envelope(2, <<>>, <<>>)}
    \cup {Envelope(Len(rows), ReportCols(report), rows) : rows \in ApiFrames(report)}

\* which return of fetch_api_data an answer leads to
ResponseKind(response) ==
    IF response.error # "" THEN response.error
    ELSE IF response.totalRecords = 0 THEN "zero_records"
    ELSE IF response.fields = <<>> \/ response.data = <<>> THEN "malformed"
    ELSE "data"

\* the argument tuple st.cache_data hashes
CacheKey(report, location, token) ==
    LET config == REPORT_CONFIG(report)
    IN  [url |-> config.url,
         headers |-> <<token, ERCOT_SUBSCRIPTION_KEY>>,
         params |-> <<config.date_param_prefix, StartDate, EndDate,
                      config.location_param, location, 5000>>,
         price_column |-> config.price_column,
         access_token |-> token,
         subscription_key |-> ERCOT_SUBSCRIPTION_KEY]

\* the body of fetch_api_data, run when the cache has no entry: the frames it
\* may return for an answer of the API
fetch_api_data(response, price_column_name) ==
    IF response.error \in {"http_401", "network_error"} THEN {EmptyFrame}
    ELSE IF response.error # "" THEN {EmptyFrame}
    ELSE IF response.totalRecords = 0 THEN {EmptyFrame}
    ELSE IF response.fields = <<>> \/ response.data = <<>> THEN {EmptyFrame}
    ELSE {o.frame : o \in process_and_normalize_data(
                            [cols |-> response.fields, rows |-> response.data],
                            price_column_name)}

\* a cache that keeps only the non-empty results
cache_nonempty(store, key, result) ==
    IF IsEmpty(result) THEN store
    ELSE [k \in DOMAIN store \cup {key} |-> IF k = key THEN result ELSE store[k]]

\* @st.cache_data: the store after a call that missed returned result
cache_data(store, key, result) ==
    [k \in DOMAIN store \cup {key} |-> IF k = key THEN result ELSE store[k]]

\* the selection stored with the location parameter's name for the location
StoredSelectionParamName(report, location) ==
    [price_column |-> REPORT_CONFIG(report).price_column,
     report_type |-> report,
     location_input |-> REPORT_CONFIG(report).location_param]

\* what the handler stores beside the data
StoredSelection(report, location) ==
    [price_column |-> REPORT_CONFIG(report).price_column,
     report_type |-> report,
     location_input |-> location]

\* the period the radio shows in this run: its kept value while the tab has
\* been rendered, its first option otherwise
RadioValue == IF analysis.view.kind = "none" THEN FullDay ELSE analysis.view.period

\* the "Display Data" section of a run
Display(df, price_column_name, analysis_period) ==
    IF IsEmpty(df) THEN NoAnalysis
    ELSE [of |-> df,
          view |-> display_statistical_analysis(df, price_column_name,
                                                analysis_period)]

Init ==
    /\ PipeIdle
    /\ pc = "session"
    /\ HourIdle
    /\ SessionInit

\* one script run with the "Fetch Data" button pressed
FetchData ==
    /\ pc = "session"
    /\ last.fetches < MaxFetches
    /\ \E report \in ReportTypes, location \in Locations,
          auth_response \in AuthResponses :
          LET config == REPORT_CONFIG(report)
              exchange == ercot_access_token = "None"
              token == IF exchange
                       THEN get_ercot_token(ercot_access_token, auth_response)
                       ELSE ercot_access_token
              key == CacheKey(report, location, token)
              hit == key \in DOMAIN memo
              note(response, result, requested) ==
                  [fetches |-> last.fetches + 1, report |-> report,
                   location |-> location,
                   auth |-> IF exchange THEN auth_response ELSE "cached",
                   key |-> key, seen_before |-> key \in DOMAIN seen,
                   requested |-> requested, response |-> response,
                   result |-> result]
          IN  /\ show_analysis' = FALSE
              /\ exchanges' = IF exchange THEN exchanges + 1 ELSE exchanges
              /\ ercot_access_token' = token
              /\ IF token = "None"
                 THEN /\ data' = EmptyFrame
                      /\ analysis' = NoAnalysis
                      /\ last' = [note("", EmptyFrame, FALSE) EXCEPT !.key = <<>>,
                                        !.seen_before = FALSE]
                      /\ UNCHANGED <<price_column, report_type, location_input,
                                     memo, seen, requests>>
                 ELSE \E response \in ApiResponses(report) :
                      \E result \in IF hit THEN {memo[key]}
                                    ELSE fetch_api_data(response, config.price_column) :
                          LET df == IF ~IsEmpty(result) /\ config.resample
                                    THEN resample_to_hourly_average(
                                            result, config.price_column)
                                    ELSE result
                              stored == StoredSelection(report, location)
                          IN  /\ memo' = IF hit THEN memo
                                         ELSE cache_data(memo, key, result)
                              /\ requests' = IF hit THEN requests ELSE requests + 1
                              /\ data' = df
                              /\ price_column' = stored.price_column
                              /\ report_type' = stored.report_type
                              /\ location_input' = stored.location_input
                              /\ analysis' = Display(df, stored.price_column, RadioValue)
                              /\ seen' = IF key \in DOMAIN seen THEN seen
                                         ELSE [k \in DOMAIN seen \cup {key} |->
                                                 IF k = key
                                                 THEN [result |-> result,
                                                       response |-> ResponseKind(response)]
                                                 ELSE seen[k]]
                              /\ last' = note(IF hit THEN "cached"
                                              ELSE ResponseKind(response),
                                              result, ~hit)
    /\ UNCHANGED <<raw, norm, renorm, relabelled, hourly, pc, hourVars>>

\* one script run after the user changed the analysis period
ChangeAnalysisPeriod ==
    /\ pc = "session"
    /\ ~IsEmpty(data)
    /\ \E analysis_period \in AnalysisPeriods :
          /\ analysis_period # analysis.view.period
          /\ analysis' = Display(data, price_column, analysis_period)
    /\ UNCHANGED <<raw, norm, renorm, relabelled, hourly, pc, hourVars, sessionVars>>

Next == FetchData \/ ChangeAnalysisPeriod

Spec == Init /\ [][Next]_vars

----------------------------------------------------------------------------
\* Properties of the session.

Fetched == last.fetches > 0

\* C5 (as claimed): once a fetch made with the cached token has failed
\* authentication the token is no longer held, and a failed token exchange
\* stores no token.
TokenDroppedOnAuthFailure ==
    /\ (Fetched /\ last.auth = "cached" /\ last.response = "http_401")
            => ercot_access_token = "None"
    /\ (Fetched /\ last.auth \in {"no_token", "http_error"})
            => ercot_access_token = "None"

\* C9: after a Fetch Data run the session's data is the frame that run produced
\* (the frame fetch_api_data returned to it, resampled for a report flagged for
\* it), or empty when authentication or the fetch failed; and while the data is
\* not empty the stored price column, report type and location are that run's.
DataReplacedWholesale ==
    Fetched
    => LET config == REPORT_CONFIG(last.report)
           failed == last.auth \in {"no_token", "http_error"}
                        \/ last.response \in {"http_401", "network_error",
                                              "not_json", "zero_records",
                                              "malformed"}
       IN  /\ failed => IsEmpty(data) /\ data = EmptyFrame
           /\ last.auth \in {"no_token", "http_error"} => requests = 0
           /\ ~failed =>
                 IF config.resample /\ ~IsEmpty(last.result)
                 THEN data = resample_to_hourly_average(last.result,
                                                        config.price_column)
                 ELSE data = last.result
           /\ ~IsEmpty(data) =>
                 /\ price_column = config.price_column
                 /\ report_type = last.report
                 /\ location_input = last.location
                 /\ analysis.of = data

\* a second fetch, of another report and location, replaced a non-empty series
DataReplacedWholesaleWitness ==
    /\ last.fetches = 2
    /\ ~IsEmpty(data)
    /\ report_type = "RTM - SPP"
    /\ location_input = "HB_HOUSTON"
    /\ Cardinality(DOMAIN memo) = 2
    /\ \E k \in DOMAIN memo : k.price_column = "LMP" /\ ~IsEmpty(memo[k])

\* C10: a fetch whose argument tuple equals that of an earlier completed fetch
\* returns that fetch's result, an empty one included, with no request to the
\* API; a request is issued exactly for an argument tuple not seen before.
FetchMemoized ==
    (Fetched /\ last.auth \in {"cached", "token"})
    => /\ last.key \in DOMAIN seen
       /\ last.seen_before => /\ ~last.requested
                              /\ last.result = seen[last.key].result
       /\ last.requested <=> ~last.seen_before
       /\ requests = Cardinality(DOMAIN seen)

\* a repeated fetch answered from the memo of a failed one
FetchMemoizedWitness ==
    /\ Fetched
    /\ last.seen_before
    /\ ~last.requested
    /\ seen[last.key].response = "network_error"
    /\ IsEmpty(last.result)
    /\ requests = 1

====
